---- MODULE Spec2Model ----
(***************************************************************************)
(* A model of Turbine's package descriptor, setup.py: one run of the       *)
(* script, from opening README.md to the setuptools.setup call.            *)
(*                                                                         *)
(* Text that the script or a property inspects character by character is   *)
(* a sequence of one-character strings; literals that are only passed on   *)
(* are TLA+ strings.                                                       *)
(***************************************************************************)
EXTENDS Integers, Sequences, FiniteSets, TLC

VARIABLES
    pc,                 \* the statement the run is at
    fs,                 \* what README.md is in the working directory
    readme,             \* README.md's content on disk
    fh,                 \* the file object of the with statement
    raw,                \* what fh.read() returned
    long_description,   \* the module-level name bound at line 4
    setup_calls         \* the keyword arguments of each setuptools.setup call

vars == <<pc, fs, readme, fh, raw, long_description, setup_calls>>

(***************************************************************************)
(* Bounds of the model.                                                    *)
(***************************************************************************)
\* README.md is built from at most this many pieces of ReadmePieces.
MaxPieces == 3

(***************************************************************************)
(* The inputs: README.md and the package directories found on disk.        *)
(***************************************************************************)
CR == "\r"
LF == "\n"

\* "https://", the start of a link target that is already absolute
AbsoluteScheme ==
    <<"h","t","t","p","s",":","/","/">>

\* The pieces README.md is drawn from: the two characters of the replaced
\* pattern on their own and together, an ordinary character, the two line
\* ending characters, and the scheme of an absolute link target.
ReadmePieces ==
    { <<"]">>, <<"(">>, <<"]","(">>, <<"a">>, <<CR>>, <<LF>>, AbsoluteScheme }

RECURSIVE Flatten(_)
Flatten(ps) ==
    IF ps = <<>> THEN <<>> ELSE Head(ps) \o Flatten(Tail(ps))

PieceSeqs ==
    UNION { [1..n -> ReadmePieces] : n \in 0..MaxPieces }

ReadmeContents ==
    { Flatten(ps) : ps \in PieceSeqs }

\* What open("README.md", "r") and fh.read() can meet.
FsStates ==
    { "ok", "missing", "denied", "undecodable" }

\* What setuptools.find_packages() can return for the working directory.
PackageLists ==
    { <<>>, <<"turbine">> }

(***************************************************************************)
(* Line 3: open("README.md", "r") is a text-mode open with the default     *)
(* newline=None, so read() returns the content with universal newlines:    *)
(* each "\r\n" and each lone "\r" comes back as "\n".                      *)
(***************************************************************************)
RECURSIVE UniversalNewlines(_)
UniversalNewlines(s) ==
    IF s = <<>> THEN <<>>
    ELSE IF Head(s) = CR
         THEN IF Len(s) >= 2 /\ s[2] = LF
              THEN <<LF>> \o UniversalNewlines(SubSeq(s, 3, Len(s)))
              ELSE <<LF>> \o UniversalNewlines(Tail(s))
         ELSE <<Head(s)>> \o UniversalNewlines(Tail(s))

TextModeRead(s) ==
    UniversalNewlines(s)

(***************************************************************************)
(* Lines 4-6: str.replace(old, new) with a non-empty old: find the first   *)
(* match at or after the current place, copy what precedes it, put new in  *)
(* its stead and go on after the match; copy the rest when none is left.   *)
(***************************************************************************)
\* str.find: the least place at which old occurs in s, 0 when it does not.
Find(s, old) ==
    LET hits == { i \in 1..(Len(s) - Len(old) + 1) :
                      SubSeq(s, i, i + Len(old) - 1) = old }
    IN  IF hits = {} THEN 0
        ELSE CHOOSE i \in hits : \A j \in hits : i <= j

\* A variant: str.replace(old, new, 1), which stops after the first match.
StrReplace_FirstOnly(s, old, new) ==
    LET at == Find(s, old)
    IN  IF at = 0 THEN s
        ELSE SubSeq(s, 1, at - 1) \o new \o SubSeq(s, at + Len(old), Len(s))

RECURSIVE StrReplace(_, _, _)
StrReplace(s, old, new) ==
    LET at == Find(s, old)
    IN  IF at = 0 THEN s
        ELSE SubSeq(s, 1, at - 1) \o new
                 \o StrReplace(SubSeq(s, at + Len(old), Len(s)), old, new)

\* "]("
LinkOpen ==
    <<"]","(">>

\* "](https://github.com/Kasekopf/Turbine/blob/master/"
LinkOpenWithBlobUrl ==
    <<"]","(","h","t","t","p","s",":","/","/","g","i","t","h","u","b",".",
      "c","o","m","/","K","a","s","e","k","o","p","f","/","T","u","r","b",
      "i","n","e","/","b","l","o","b","/","m","a","s","t","e","r","/">>

\* A variant: a rewrite that leaves a target starting with "https://" alone.
RECURSIVE RewriteLinks_RelativeOnly(_)
RewriteLinks_RelativeOnly(s) ==
    LET at == Find(s, LinkOpen)
        rest == SubSeq(s, at + 2, Len(s))
        absolute == /\ Len(rest) >= Len(AbsoluteScheme)
                    /\ SubSeq(rest, 1, Len(AbsoluteScheme)) = AbsoluteScheme
    IN  IF at = 0 THEN s
        ELSE SubSeq(s, 1, at - 1)
                 \o (IF absolute THEN LinkOpen ELSE LinkOpenWithBlobUrl)
                 \o RewriteLinks_RelativeOnly(rest)

RewriteLinks(s) ==
    StrReplace(s, LinkOpen, LinkOpenWithBlobUrl)

(***************************************************************************)
(* Lines 8-27: the keyword arguments of the setuptools.setup call.         *)
(***************************************************************************)
\* A variant: license="GPL"
license_GPL ==
    <<"G","P","L">>

\* "MIT"
license ==
    <<"M","I","T">>

\* "Posix; MacOS X; Windows"
platforms ==
    <<"P","o","s","i","x",";"," ","M","a","c","O","S"," ","X",";"," ","W",
      "i","n","d","o","w","s">>

\* A variant: the first dependency pinned, "google-cloud-pubsub>=1.0"
install_requires_Pinned ==
    <<
       <<"g","o","o","g","l","e","-","c","l","o","u","d","-","p","u","b",
         "s","u","b",">","=","1",".","0">>,
       <<"g","o","o","g","l","e","-","c","l","o","u","d","-","s","t","o",
         "r","a","g","e">>,
       <<"g","o","o","g","l","e","-","c","l","o","u","d","-","l","o","g",
         "g","i","n","g">>,
       <<"g","o","o","g","l","e","-","a","p","i","-","p","y","t","h","o",
         "n","-","c","l","i","e","n","t">> >>

install_requires ==
    << \* "google-cloud-pubsub"
       <<"g","o","o","g","l","e","-","c","l","o","u","d","-","p","u","b",
         "s","u","b">>,
       \* "google-cloud-storage"
       <<"g","o","o","g","l","e","-","c","l","o","u","d","-","s","t","o",
         "r","a","g","e">>,
       \* "google-cloud-logging"
       <<"g","o","o","g","l","e","-","c","l","o","u","d","-","l","o","g",
         "g","i","n","g">>,
       \* "google-api-python-client"
       <<"g","o","o","g","l","e","-","a","p","i","-","p","y","t","h","o",
         "n","-","c","l","i","e","n","t">> >>

\* A variant: python_requires='>=3.6,<4'
python_requires_Capped ==
    <<">","=","3",".","6",",","<","4">>

\* '>=3.6'
python_requires ==
    <<">","=","3",".","6">>

\* A variant: the language classifier left at "... :: Python :: 2"
classifiers_Python2 ==
    <<
       <<"P","r","o","g","r","a","m","m","i","n","g"," ","L","a","n","g",
         "u","a","g","e"," ",":",":"," ","P","y","t","h","o","n"," ",":",
         ":"," ","2">>,
       <<"L","i","c","e","n","s","e"," ",":",":"," ","O","S","I"," ","A",
         "p","p","r","o","v","e","d"," ",":",":"," ","M","I","T"," ","L",
         "i","c","e","n","s","e">>,
       <<"O","p","e","r","a","t","i","n","g"," ","S","y","s","t","e","m",
         " ",":",":"," ","O","S"," ","I","n","d","e","p","e","n","d","e",
         "n","t">> >>

classifiers ==
    << \* "Programming Language :: Python :: 3"
       <<"P","r","o","g","r","a","m","m","i","n","g"," ","L","a","n","g",
         "u","a","g","e"," ",":",":"," ","P","y","t","h","o","n"," ",":",
         ":"," ","3">>,
       \* "License :: OSI Approved :: MIT License"
       <<"L","i","c","e","n","s","e"," ",":",":"," ","O","S","I"," ","A",
         "p","p","r","o","v","e","d"," ",":",":"," ","M","I","T"," ","L",
         "i","c","e","n","s","e">>,
       \* "Operating System :: OS Independent"
       <<"O","p","e","r","a","t","i","n","g"," ","S","y","s","t","e","m",
         " ",":",":"," ","O","S"," ","I","n","d","e","p","e","n","d","e",
         "n","t">> >>

\* A variant: the same call with a console script declared.
SetupKwargs_WithConsoleScript(ld, pkgs) ==
    [ name |-> "turbine",
      version |-> "0.1.0",
      author |-> "Jeffrey Dudek",
      author_email |-> "jeffreydudek@gmail.com",
      description |->
          "A Python 3 tool to harness the google cloud to run shell scripts",
      long_description |-> ld,
      long_description_content_type |-> "text/markdown",
      url |-> "https://github.com/Kasekopf/Turbine",
      packages |-> pkgs,
      license |-> license,
      platforms |-> platforms,
      install_requires |-> install_requires,
      python_requires |-> python_requires,
      classifiers |-> classifiers,
      entry_points |-> << "turbine=turbine:main" >> ]

SetupKwargs(ld, pkgs) ==
    [ name |-> "turbine",
      version |-> "0.1.0",
      author |-> "Jeffrey Dudek",
      author_email |-> "jeffreydudek@gmail.com",
      description |->
          "A Python 3 tool to harness the google cloud to run shell scripts",
      long_description |-> ld,
      long_description_content_type |-> "text/markdown",
      url |-> "https://github.com/Kasekopf/Turbine",
      packages |-> pkgs,
      license |-> license,
      platforms |-> platforms,
      install_requires |-> install_requires,
      python_requires |-> python_requires,
      classifiers |-> classifiers ]

(***************************************************************************)
(* The state before the first statement runs.                              *)
(***************************************************************************)
Init ==
    /\ pc = "line3"
    /\ fs \in FsStates
    /\ readme \in (IF fs = "missing" THEN { <<>> } ELSE ReadmeContents)
    /\ fh = "none"
    /\ raw = <<>>
    /\ long_description = <<>>
    /\ setup_calls = <<>>

(***************************************************************************)
(* Line 3: with open("README.md", "r") as fh                               *)
(***************************************************************************)
OpenReadme ==
    /\ pc = "line3"
    /\ fs \in { "ok", "undecodable" }
    /\ fh' = "open"
    /\ pc' = "line4"
    /\ UNCHANGED <<fs, readme, raw, long_description, setup_calls>>

\* A variant: the failure to open is swallowed and the script goes on.
OpenReadmeRaises_Swallowed ==
    /\ pc = "line3"
    /\ fs \in { "missing", "denied" }
    /\ pc' = "line8"
    /\ UNCHANGED <<fs, readme, fh, raw, long_description, setup_calls>>

\* FileNotFoundError or PermissionError: nothing catches it, the run ends.
OpenReadmeRaises ==
    /\ pc = "line3"
    /\ fs \in { "missing", "denied" }
    /\ pc' = "raised"
    /\ UNCHANGED <<fs, readme, fh, raw, long_description, setup_calls>>

(***************************************************************************)
(* Lines 4-6: long_description = fh.read().replace("](", "](https://...")  *)
(***************************************************************************)
ReadAndRewrite ==
    /\ pc = "line4"
    /\ fs = "ok"
    /\ raw' = TextModeRead(readme)
    /\ long_description' = RewriteLinks(TextModeRead(readme))
    /\ pc' = "with_exit"
    /\ UNCHANGED <<fs, readme, fh, setup_calls>>

\* UnicodeDecodeError out of fh.read(): the with statement closes fh and the
\* exception leaves the script.
ReadRaises ==
    /\ pc = "line4"
    /\ fs = "undecodable"
    /\ fh' = "closed"
    /\ pc' = "raised"
    /\ UNCHANGED <<fs, readme, raw, long_description, setup_calls>>

\* The end of the with block: fh.__exit__ closes the file.
ExitWith ==
    /\ pc = "with_exit"
    /\ fh' = "closed"
    /\ pc' = "line8"
    /\ UNCHANGED <<fs, readme, raw, long_description, setup_calls>>

(***************************************************************************)
(* Lines 8-27: setuptools.setup(...), the last statement of the script.    *)
(***************************************************************************)
Setup ==
    /\ pc = "line8"
    /\ \E pkgs \in PackageLists :
          setup_calls' =
              Append(setup_calls, SetupKwargs(long_description, pkgs))
    /\ pc' = "exit"
    /\ UNCHANGED <<fs, readme, fh, raw, long_description>>

Next ==
    \/ OpenReadme
    \/ OpenReadmeRaises
    \/ ReadAndRewrite
    \/ ReadRaises
    \/ ExitWith
    \/ Setup

Spec == Init /\ [][Next]_vars

(***************************************************************************)
(* Vocabulary of the properties.                                           *)
(***************************************************************************)
\* Every setuptools.setup call made so far, as its keyword arguments.
Calls ==
    { setup_calls[i] : i \in 1..Len(setup_calls) }

\* long_description has been bound (line 4 has run).
Bound ==
    pc \in { "with_exit", "line8", "exit" }

\* The pieces of s between the occurrences of the separator sep.
RECURSIVE SplitFrom(_, _)
SplitFrom(s, sep) ==
    LET at == Find(s, sep)
    IN  IF at = 0 THEN << s >>
        ELSE << SubSeq(s, 1, at - 1) >>
                 \o SplitFrom(SubSeq(s, at + Len(sep), Len(s)), sep)

Split(s, sep) ==
    SplitFrom(s, sep)

Range(f) ==
    { f[i] : i \in DOMAIN f }

Last(s) ==
    s[Len(s)]

\* The places in r where "](" starts.
LinkOpens(r) ==
    { i \in 1..(Len(r) - 1) : r[i] = "]" /\ r[i + 1] = "(" }

\* "https://github.com/Kasekopf/Turbine/blob/master/", 48 characters
BlobUrl ==
    <<"h","t","t","p","s",":","/","/","g","i","t","h","u","b",".","c","o",
      "m","/","K","a","s","e","k","o","p","f","/","T","u","r","b","i","n",
      "e","/","b","l","o","b","/","m","a","s","t","e","r","/">>

\* How far the character r[i] has moved right in the rewritten text: 48 for
\* each "](" that ends before it.
Shift(r, i) ==
    48 * Cardinality({ j \in LinkOpens(r) : j + 1 < i })

\* out is r with BlobUrl put in after each "](" and nothing else changed.
IsLinkRewrite(r, out) ==
    /\ Len(out) = Len(r) + 48 * Cardinality(LinkOpens(r))
    /\ \A i \in 1..Len(r) : out[i + Shift(r, i)] = r[i]
    /\ \A j \in LinkOpens(r) :
          SubSeq(out, j + 2 + Shift(r, j + 1), j + 49 + Shift(r, j + 1)) = BlobUrl
    /\ (LinkOpens(r) = {} => out = r)

\* The places in r where a "\r\n" pair starts.
CrLfs(r) ==
    { i \in 1..(Len(r) - 1) : r[i] = CR /\ r[i + 1] = LF }

\* t is r as a text-mode read returns it: each "\r\n" is one "\n", each
\* other "\r" is "\n", every other character is kept.
IsTextOf(r, t) ==
    /\ Len(t) = Len(r) - Cardinality(CrLfs(r))
    /\ \A i \in 1..Len(r) :
          LET at == i - Cardinality({ j \in CrLfs(r) : j < i })
          IN  \/ (i - 1) \in CrLfs(r)
              \/ t[at] = (IF r[i] = CR THEN LF ELSE r[i])

\* The comparison operators of a version specifier clause.
SpecifierOpChars ==
    { "<", ">", "=", "!", "~" }

\* Characters that only occur in a requirement that constrains its project:
\* a version specifier, an extra, a marker or a direct reference.
ConstraintChars ==
    SpecifierOpChars \cup { "[", "]", ";", "@", " ", "(", ")", "," }

\* How many characters of the clause c make up its comparison operator.
OperatorLen(c) ==
    LET others == { i \in 1..Len(c) : c[i] \notin SpecifierOpChars }
    IN  IF others = {} THEN Len(c)
        ELSE (CHOOSE i \in others : \A j \in others : i <= j) - 1

OperatorOf(c) ==
    SubSeq(c, 1, OperatorLen(c))

VersionOf(c) ==
    SubSeq(c, OperatorLen(c) + 1, Len(c))

\* The clauses of a version specifier, the platforms of a platforms string,
\* the levels of a classifier.
Clauses(spec) ==
    Split(spec, <<",">>)

PlatformsOf(s) ==
    Split(s, <<";", " ">>)

Levels(c) ==
    Split(c, <<" ", ":", ":", " ">>)

ClassifiersUnder(kw, top) ==
    { Levels(c) : c \in { x \in Range(kw.classifiers) : Head(Levels(x)) = top } }

(***************************************************************************)
(* C1: every setuptools.setup call declares name "turbine", version        *)
(* "0.1.0" and license "MIT".                                              *)
(***************************************************************************)
C1_NameVersionLicense ==
    \A kw \in Calls :
        /\ kw.name = "turbine"
        /\ kw.version = "0.1.0"
        /\ kw.license = <<"M","I","T">>

\* The script has run to its end and has called setup().
C1_Witness ==
    /\ pc = "exit"
    /\ \E kw \in Calls : kw.name = "turbine"

(***************************************************************************)
(* C2: install_requires has exactly four entries, all distinct, which are  *)
(* the bare project names google-cloud-pubsub, google-cloud-storage,       *)
(* google-cloud-logging and google-api-python-client: no other dependency  *)
(* and no version constraint.                                              *)
(***************************************************************************)
C2_FourBareDependencies ==
    \A kw \in Calls :
        /\ Len(kw.install_requires) = 4
        /\ Cardinality(Range(kw.install_requires)) = 4
        /\ Range(kw.install_requires) =
              {
                <<"g","o","o","g","l","e","-","c","l","o","u","d","-","p",
                  "u","b","s","u","b">>,
                <<"g","o","o","g","l","e","-","c","l","o","u","d","-","s",
                  "t","o","r","a","g","e">>,
                <<"g","o","o","g","l","e","-","c","l","o","u","d","-","l",
                  "o","g","g","i","n","g">>,
                <<"g","o","o","g","l","e","-","a","p","i","-","p","y","t",
                  "h","o","n","-","c","l","i","e","n","t">> }
        /\ \A d \in Range(kw.install_requires) :
              \A i \in 1..Len(d) : d[i] \notin ConstraintChars

\* setup() has been called with a dependency list.
C2_Witness ==
    \E kw \in Calls : Len(kw.install_requires) > 0

(***************************************************************************)
(* C3: python_requires is the single clause ">=3.6", a lower bound with no *)
(* upper bound, and platforms names exactly the three platforms Posix,     *)
(* MacOS X and Windows.                                                    *)
(***************************************************************************)
C3_MinimumPythonAndPlatforms ==
    \A kw \in Calls :
        /\ Len(Clauses(kw.python_requires)) = 1
        /\ \A c \in Range(Clauses(kw.python_requires)) :
              /\ OperatorOf(c) = <<">", "=">>
              /\ VersionOf(c) = <<"3", ".", "6">>
        /\ PlatformsOf(kw.platforms) =
              << <<"P","o","s","i","x">>,
                 <<"M","a","c","O","S"," ","X">>,
                 <<"W","i","n","d","o","w","s">> >>

\* setup() has been called with a version specifier and a platforms string.
C3_Witness ==
    \E kw \in Calls :
        /\ Len(kw.python_requires) > 0
        /\ Len(PlatformsOf(kw.platforms)) = 3

(***************************************************************************)
(* C4: the metadata agrees with itself: the one license classifier names   *)
(* the license of the license field, the minimum version of                *)
(* python_requires is of the major version the language classifier names,  *)
(* and the operating system classifier admits every platform listed.       *)
(***************************************************************************)
C4_MetadataConsistent ==
    \A kw \in Calls :
        /\ Cardinality(ClassifiersUnder(kw, <<"L","i","c","e","n","s","e">>)) = 1
        /\ \A lv \in ClassifiersUnder(kw, <<"L","i","c","e","n","s","e">>) :
              Last(lv) = kw.license \o <<" ","L","i","c","e","n","s","e">>
        /\ ClassifiersUnder(kw,
                <<"P","r","o","g","r","a","m","m","i","n","g"," ","L","a",
                  "n","g","u","a","g","e">>) # {}
        /\ \A lv \in ClassifiersUnder(kw,
                <<"P","r","o","g","r","a","m","m","i","n","g"," ","L","a",
                  "n","g","u","a","g","e">>) :
              \A c \in Range(Clauses(kw.python_requires)) :
                  /\ lv[2] = <<"P","y","t","h","o","n">>
                  /\ Last(lv) = Head(Split(VersionOf(c), <<".">>))
        /\ \A pf \in Range(PlatformsOf(kw.platforms)) :
              \E lv \in ClassifiersUnder(kw,
                <<"O","p","e","r","a","t","i","n","g"," ","S","y","s","t",
                  "e","m">>) :
                  \/ Last(lv) =
                      <<"O","S"," ","I","n","d","e","p","e","n","d","e","n",
                        "t">>
                  \/ Last(lv) = pf

\* setup() has been called with classifiers of all three kinds.
C4_Witness ==
    \E kw \in Calls :
        /\ Len(kw.classifiers) = 3
        /\ ClassifiersUnder(kw, <<"L","i","c","e","n","s","e">>) # {}
        /\ ClassifiersUnder(kw,
                <<"O","p","e","r","a","t","i","n","g"," ","S","y","s","t",
                  "e","m">>) # {}

(***************************************************************************)
(* C5: the setup() call passes exactly the fourteen keyword arguments      *)
(* name, version, author, author_email, description, long_description,     *)
(* long_description_content_type, url, packages, license, platforms,       *)
(* install_requires, python_requires and classifiers: no entry_points and  *)
(* no scripts, so no executable command is declared.                       *)
(***************************************************************************)
DeclaredCommands(kw) ==
    (IF "entry_points" \in DOMAIN kw THEN Range(kw.entry_points) ELSE {})
        \cup (IF "scripts" \in DOMAIN kw THEN Range(kw.scripts) ELSE {})

C5_NoCommandLineSurface ==
    \A kw \in Calls :
        /\ DOMAIN kw =
              { "name", "version", "author", "author_email", "description",
                "long_description", "long_description_content_type", "url",
                "packages", "license", "platforms", "install_requires",
                "python_requires", "classifiers" }
        /\ DeclaredCommands(kw) = {}

\* setup() has been called, with packages found on disk.
C5_Witness ==
    \E kw \in Calls : kw.packages # <<>> /\ "packages" \in DOMAIN kw

(***************************************************************************)
(* C8: setup() is called at most once, and only for a README.md that was   *)
(* opened, read to its end and closed; when README.md is missing or cannot *)
(* be read, setup() is never called and the run can only stop in an error. *)
(***************************************************************************)
C8_SetupOnlyAfterReadmeRead ==
    /\ Len(setup_calls) <= 1
    /\ setup_calls # <<>> =>
          /\ fs = "ok"
          /\ fh = "closed"
          /\ IsTextOf(readme, raw)
    /\ fs # "ok" =>
          /\ setup_calls = <<>>
          /\ pc \notin { "line8", "exit" }
          /\ pc = "raised" \/ ENABLED Next

\* The run has ended in an error for a missing README.md.
C8_Witness ==
    /\ fs = "missing"
    /\ pc = "raised"
    /\ setup_calls = <<>>

(***************************************************************************)
(* C6, as first stated: for every README.md content r, the                 *)
(* long_description passed to setup() is r with the blob URL put in after  *)
(* each "](" and every other character unchanged, so k * 48 characters     *)
(* longer, and r itself when r has no "](".                                *)
(***************************************************************************)
C6_RewriteOfFileContent ==
    /\ Bound => IsLinkRewrite(readme, long_description)
    /\ \A kw \in Calls : IsLinkRewrite(readme, kw.long_description)

(***************************************************************************)
(* C6, amended: the long_description passed to setup() is t with the blob  *)
(* URL put in after each "](" and every other character unchanged, where t *)
(* is README.md's content as the text-mode read returns it (each "\r\n"    *)
(* and each other "\r" read as "\n"); it is k * 48 characters longer than  *)
(* t for k occurrences of "](", and is t itself when there is none.        *)
(***************************************************************************)
C6_RewriteOfReadText ==
    /\ Bound => /\ IsTextOf(readme, raw)
                /\ IsLinkRewrite(raw, long_description)
    /\ \A kw \in Calls : IsLinkRewrite(raw, kw.long_description)

\* setup() has been called for a README.md with two links and a "\r".
C6_Witness ==
    /\ Calls # {}
    /\ Cardinality(LinkOpens(raw)) >= 2
    /\ \E i \in 1..Len(readme) : readme[i] = CR
    /\ \A kw \in Calls : Len(kw.long_description) = Len(raw) + 96

(***************************************************************************)
(* C7: the rewrite is unconditional and not idempotent. A "](" followed by *)
(* "https://" gets the blob URL put in front of that target as well; when  *)
(* the text read has a "](", rewriting long_description once more gives a  *)
(* different text, with the blob URL twice after each "]("; and the        *)
(* rewrite leaves a text as it is exactly when the text has no "](".       *)
(***************************************************************************)
C7_RewriteUnconditionalNotIdempotent ==
    Bound =>
        LET out == long_description
            again == RewriteLinks(long_description)
        IN  /\ \A j \in LinkOpens(raw) :
                  ( /\ j + 9 <= Len(raw)
                    /\ SubSeq(raw, j + 2, j + 9) = AbsoluteScheme )
                  => /\ j + Shift(raw, j) + 57 <= Len(out)
                     /\ SubSeq(out, j + Shift(raw, j), j + Shift(raw, j) + 57)
                            = <<"]", "(">> \o BlobUrl \o AbsoluteScheme
            /\ LinkOpens(raw) # {} =>
                  /\ again # out
                  /\ LinkOpens(again) # {}
                  /\ \A q \in LinkOpens(again) :
                        /\ q + 97 <= Len(again)
                        /\ SubSeq(again, q + 2, q + 97) = BlobUrl \o BlobUrl
            /\ (out = raw) <=> (LinkOpens(raw) = {})
            /\ (again = out) <=> (LinkOpens(out) = {})

\* long_description is bound for a README.md with a link to an absolute URL.
C7_Witness ==
    /\ Bound
    /\ \E j \in LinkOpens(raw) :
          /\ j + 9 <= Len(raw)
          /\ SubSeq(raw, j + 2, j + 9) = AbsoluteScheme
    /\ RewriteLinks(long_description) # long_description

====
